---- MODULE Spec2Model ----
\* Model of packages/vite-plugin-svelte/src/utils/esbuild.ts:
\* the esbuild prebundling plugin (onStart / onLoad / onEnd), the per-file
\* compile pipeline (compileSvelte) and the run-end statistics aggregation.
EXTENDS Integers, Sequences, FiniteSets, TLC

\* ---------------------------------------------------------------- bounds
MaxRuns == 2        \* run-start signals
MaxInFlight == 2    \* load hooks a host keeps pending at once
NumFiles == 3       \* files per run of the host whose clock is at rest
NumFilesTimed == 1  \* files per run of the host whose clock advances
MaxTime == 1        \* largest reading of an advancing clock
MaxStep == 1        \* largest advance of the clock between two readings
NumDrawn == 2       \* records of a run whose aggregation is explored alone

\* The paths matching svelteFilter that a host dispatches to the load hook:
\* file k is the k-th path dispatched in a run (the code treats a path as
\* opaque, so which path comes first is immaterial).
Files == 1..(IF NumFiles > NumFilesTimed THEN NumFiles ELSE NumFilesTimed)

\* ------------------------------------------------------- external values
\* JS `undefined`, as a package key and as an object key ("undefined").
Undefined == "undefined"
\* Paths findClosestPkgJsonPath can resolve to.
Pkgs == {"/a/package.json", "/b/package.json"}
\* The `name` field of the manifest at a path.
ManifestName(p) == IF p = "/a/package.json" THEN "a" ELSE "b"
\* Messages a preprocessor rejection can carry ("" is a falsy message).
PreprocessMsgs == {"", "bad syntax"}

VARIABLES
  host,           \* the host: [files] per run, [limit] load hooks pending at
                  \* once, and whether its clock is [ticking]
  options,        \* ResolvedOptions: [preprocess, dynamic] (is each configured)
  clock,          \* last reading of performance.now()
  run,            \* number of run-start signals so far
  phase,          \* host lifecycle: "idle", "loading", "ending", "ended"
  stats,          \* const stats: FileStat[]
  bundleStart,    \* let bundleStart: number
  pc,             \* per file: where its onLoad invocation is suspended
  timestamps,     \* per file: the pending onLoad invocation's timestamps array
  result,         \* per file: what the load hook's promise settled to in this
                  \* run's load phase
  lookup,         \* per stats index: state of its findClosestPkgJsonPath promise
  endPc,          \* where the onEnd invocation is
  endError,       \* what the onEnd promise rejected with ("none" if it has not)
  grouped,        \* Object.values(grouped), in insertion order
  gi,             \* index in grouped of the group the report loop is at
  totalDuration,  \* const totalDuration
  log             \* messages handed to log.warn in this run

vars == <<host, options, clock, run, phase, stats, bundleStart, pc, timestamps,
          result, lookup, endPc, endError, grouped, gi, totalDuration, log>>

\* ------------------------------------------------------------ the clock
\* performance.now(): a monotonic reading no earlier than the last one. A
\* coarse clock returns the same reading throughout (the clock is at rest).
Readings(c) ==
  IF host.ticking THEN {t \in c..(c + MaxStep) : t <= MaxTime} ELSE {c}

\* A takeTimestamp that puts the event in front (unshift for push).
takeTimestampUnshift(ts, event, t) == <<[event |-> event, ts |-> t]>> \o ts

\* takeTimestamp = (event) => timestamps.push({ event, ts: performance.now() })
takeTimestamp(ts, event, t) == Append(ts, [event |-> event, ts |-> t])

\* ------------------------------------------------------- pure functions
\* Array.prototype.findIndex: 0-based index of the first match, -1 if none.
RECURSIVE findIndexFrom(_, _, _)
findIndexFrom(ts, event, i) ==
  IF i > Len(ts) THEN -1
  ELSE IF ts[i].event = event THEN i - 1
  ELSE findIndexFrom(ts, event, i + 1)

findIndex(ts, event) == findIndexFrom(ts, event, 1)

\* timestamps[i] for a 0-based i: out of range (also negative) is undefined.
InRange(ts, i) == i >= 0 /\ i < Len(ts)

\* A number, or the TypeError of reading `.ts` of undefined.
Num(n) == [threw |-> FALSE, val |-> n]
TypeError == [threw |-> TRUE, val |-> 0]

\* function duration(timestamps, to, from?)
duration(ts, to, from) ==
  LET toIndex == findIndex(ts, to)
      fromIndex == IF from # Undefined THEN findIndex(ts, from) ELSE toIndex - 1
  IN IF InRange(ts, toIndex) /\ InRange(ts, fromIndex)
     THEN Num(ts[toIndex + 1].ts - ts[fromIndex + 1].ts)
     ELSE TypeError

\* function eventTS(timestamps, event)
eventTS(ts, event) ==
  LET i == findIndex(ts, event)
  IN IF InRange(ts, i) THEN Num(ts[i + 1].ts) ELSE TypeError

\* ----------------------------------------------------- stats aggregation
\* Position in Object.values(grouped) of the group keyed by pkg, 0 if none.
RECURSIVE groupIndexFrom(_, _, _)
groupIndexFrom(gs, pkg, i) ==
  IF i > Len(gs) THEN 0
  ELSE IF gs[i].pkg = pkg THEN i
  ELSE groupIndexFrom(gs, pkg, i + 1)

groupIndex(gs, pkg) == groupIndexFrom(gs, pkg, 1)

\* The five values the forEach callback computes for one FileStat.
statTimes(stat) ==
  [readTime |-> duration(stat.timestamps, "read", Undefined),
   preprocessTime |-> duration(stat.timestamps, "preprocessed", Undefined),
   compileTime |-> duration(stat.timestamps, "compiled", Undefined),
   start |-> eventTS(stat.timestamps, "start"),
   end |-> eventTS(stat.timestamps, "end")]

statThrows(stat) ==
  LET t == statTimes(stat)
  IN t.readTime.threw \/ t.preprocessTime.threw \/ t.compileTime.threw
       \/ t.start.threw \/ t.end.threw

\* A grouping whose span start is the start of the record grouped last.
addToGroupsLastStart(gs, stat) ==
  LET t == statTimes(stat)
      k == groupIndex(gs, stat.pkg)
  IN IF k = 0
     THEN Append(gs, [pkg |-> stat.pkg, count |-> 1,
                      readTime |-> t.readTime.val,
                      preprocessTime |-> t.preprocessTime.val,
                      compileTime |-> t.compileTime.val,
                      start |-> t.start.val, end |-> t.end.val])
     ELSE [gs EXCEPT ![k] =
             [pkg |-> gs[k].pkg, count |-> gs[k].count + 1,
              readTime |-> gs[k].readTime + t.readTime.val,
              preprocessTime |-> gs[k].preprocessTime + t.preprocessTime.val,
              compileTime |-> gs[k].compileTime + t.compileTime.val,
              start |-> t.start.val,
              end |-> IF gs[k].end < t.end.val THEN t.end.val ELSE gs[k].end]]

\* if (!grouped[stat.pkg]) { grouped[stat.pkg] = {...} } else { ... }
addToGroups(gs, stat) ==
  LET t == statTimes(stat)
      k == groupIndex(gs, stat.pkg)
  IN IF k = 0
     THEN Append(gs, [pkg |-> stat.pkg, count |-> 1,
                      readTime |-> t.readTime.val,
                      preprocessTime |-> t.preprocessTime.val,
                      compileTime |-> t.compileTime.val,
                      start |-> t.start.val, end |-> t.end.val])
     ELSE [gs EXCEPT ![k] =
             [pkg |-> gs[k].pkg, count |-> gs[k].count + 1,
              readTime |-> gs[k].readTime + t.readTime.val,
              preprocessTime |-> gs[k].preprocessTime + t.preprocessTime.val,
              compileTime |-> gs[k].compileTime + t.compileTime.val,
              start |-> IF gs[k].start > t.start.val THEN t.start.val ELSE gs[k].start,
              end |-> IF gs[k].end < t.end.val THEN t.end.val ELSE gs[k].end]]

\* stats.forEach(...): the groups in insertion order, or the TypeError the
\* first offending stat throws.
RECURSIVE groupStatsFrom(_, _, _)
groupStatsFrom(ss, gs, i) ==
  IF i > Len(ss) THEN [threw |-> FALSE, groups |-> gs]
  ELSE IF statThrows(ss[i]) THEN [threw |-> TRUE, groups |-> gs]
  ELSE groupStatsFrom(ss, addToGroups(gs, ss[i]), i + 1)

groupStats(ss) == groupStatsFrom(ss, <<>>, 1)

\* The block log.warn receives for one group (lines 134-164), by its values.
\* The averages are the quotients total / count, kept as fractions.
quotient(n, d) == [num |-> n, den |-> d]

groupBlock(g, name) ==
  [kind |-> "group", name |-> name, Files |-> g.count,
   Duration |-> g.end - g.start,
   DurationAvg |-> quotient(g.end - g.start, g.count),
   ReadTime |-> g.readTime,
   ReadTimeAvg |-> quotient(g.readTime, g.count),
   PreprocessTime |-> g.preprocessTime,
   PreprocessTimeAvg |-> quotient(g.preprocessTime, g.count),
   CompileTime |-> g.compileTime,
   CompileTimeAvg |-> quotient(g.compileTime, g.count)]

\* log.warn(`total duration: ...`)
totalLine(d) == [kind |-> "total", Duration |-> d]

\* ------------------------------------------------------------------ Init
\* The plugin is explored under two hosts: one dispatches more files and
\* reads a clock at rest, the other dispatches fewer and reads a ticking one.
Hosts ==
  {[files |-> NumFiles, limit |-> MaxInFlight, ticking |-> FALSE],
   [files |-> NumFilesTimed, limit |-> MaxInFlight, ticking |-> TRUE]}

\* The state after setup(build): nothing recorded, no run started.
Init ==
  /\ host \in Hosts
  /\ options \in [preprocess : BOOLEAN, dynamic : BOOLEAN]
  /\ clock = 0
  /\ run = 0
  /\ phase = "idle"
  /\ stats = <<>>
  /\ bundleStart = Undefined
  /\ pc = [f \in Files |-> "idle"]
  /\ timestamps = [f \in Files |-> <<>>]
  /\ result = [f \in Files |-> [kind |-> "none", message |-> <<>>]]
  /\ lookup = <<>>
  /\ endPc = "none"
  /\ endError = "none"
  /\ grouped = <<>>
  /\ gi = 0
  /\ totalDuration = 0
  /\ log = <<>>

InFlight(f) == pc[f] \in {"read", "preprocess", "dynamic", "compiled"}

endVars == <<lookup, endPc, endError, grouped, gi, totalDuration, log>>

\* An onStart that takes the timestamp and leaves the records in place.
OnStartKeepsRecords ==
  /\ phase \in {"idle", "ended"}
  /\ run < MaxRuns
  /\ \E t \in Readings(clock) :
       /\ stats' = stats
       /\ bundleStart' = t
       /\ clock' = t
  /\ run' = run + 1
  /\ phase' = "loading"
  /\ pc' = [f \in Files |-> "idle"]
  /\ timestamps' = [f \in Files |-> <<>>]
  /\ result' = [f \in Files |-> [kind |-> "none", message |-> <<>>]]
  /\ lookup' = <<>>
  /\ endPc' = "none"
  /\ endError' = "none"
  /\ grouped' = <<>>
  /\ gi' = 0
  /\ totalDuration' = 0
  /\ log' = <<>>
  /\ UNCHANGED <<host, options>>

\* ---------------------------------------------------------- build.onStart
\* The host signals a run start before it dispatches any file of the run and
\* after the previous run's onEnd has settled. The load-hook invocations and
\* the onEnd invocation of the previous run are gone with it.
OnStart ==
  /\ phase \in {"idle", "ended"}
  /\ run < MaxRuns
  /\ \E t \in Readings(clock) :
       /\ stats' = <<>>
       /\ bundleStart' = t
       /\ clock' = t
  /\ run' = run + 1
  /\ phase' = "loading"
  /\ pc' = [f \in Files |-> "idle"]
  /\ timestamps' = [f \in Files |-> <<>>]
  /\ result' = [f \in Files |-> [kind |-> "none", message |-> <<>>]]
  /\ lookup' = <<>>
  /\ endPc' = "none"
  /\ endError' = "none"
  /\ grouped' = <<>>
  /\ gi' = 0
  /\ totalDuration' = 0
  /\ log' = <<>>
  /\ UNCHANGED <<host, options>>

\* ----------------------------------------------------------- build.onLoad
\* Lines 67-76: a fresh timestamps array, 'start', then await fs.readFile.
OnLoad(f) ==
  /\ phase = "loading"
  /\ pc[f] = "idle"
  /\ f <= host.files
  /\ \A g \in 1..(f - 1) : pc[g] # "idle"
  /\ Cardinality({g \in Files : InFlight(g)}) < host.limit
  /\ \E t \in Readings(clock) :
       /\ timestamps' = [timestamps EXCEPT ![f] = takeTimestamp(<<>>, "start", t)]
       /\ clock' = t
  /\ pc' = [pc EXCEPT ![f] = "read"]
  /\ UNCHANGED <<host, options, run, phase, stats, bundleStart, result, endVars>>

\* Lines 76-77 and 178-195: the read resolves; 'read'; compileSvelte runs up
\* to its first await: the preprocess call, or the dynamicCompileOptions call.
ReadOk(f) ==
  /\ pc[f] = "read"
  /\ \E t1 \in Readings(clock) :
       LET ts1 == takeTimestamp(timestamps[f], "read", t1)
       IN IF options.preprocess
          THEN \E t2 \in Readings(t1) :
                 /\ timestamps' = [timestamps EXCEPT ![f] =
                                     takeTimestamp(ts1, "preprocessedStart", t2)]
                 /\ clock' = t2
                 /\ pc' = [pc EXCEPT ![f] = "preprocess"]
          ELSE /\ timestamps' = [timestamps EXCEPT ![f] = ts1]
               /\ clock' = t1
               /\ pc' = [pc EXCEPT ![f] = "dynamic"]
  /\ UNCHANGED <<host, options, run, phase, stats, bundleStart, result, endVars>>

\* Line 76: fs.readFile rejects. The await is outside the try block, so the
\* promise the load hook returned rejects.
ReadFail(f) ==
  /\ pc[f] = "read"
  /\ pc' = [pc EXCEPT ![f] = "rejected"]
  /\ result' = [result EXCEPT ![f] = [kind |-> "rejected", message |-> <<"ENOENT">>]]
  /\ timestamps' = [timestamps EXCEPT ![f] = <<>>]
  /\ UNCHANGED <<host, options, clock, run, phase, stats, bundleStart, endVars>>

\* Lines 195-206: preprocess resolves; 'preprocessed'; next await.
PreprocessOk(f) ==
  /\ pc[f] = "preprocess"
  /\ \E t \in Readings(clock) :
       /\ timestamps' = [timestamps EXCEPT ![f] =
                           takeTimestamp(timestamps[f], "preprocessed", t)]
       /\ clock' = t
  /\ pc' = [pc EXCEPT ![f] = "dynamic"]
  /\ UNCHANGED <<host, options, run, phase, stats, bundleStart, result, endVars>>

\* A rewrite that names the stage but not the file.
preprocessMessageBare(f, msg) ==
  <<"Error while preprocessing ">> \o (IF msg # "" THEN <<" - ", msg>> ELSE <<>>)

\* Line 198: the message of a preprocess rejection, rewritten.
preprocessMessage(f, msg) ==
  <<"Error while preprocessing ", f>> \o (IF msg # "" THEN <<" - ", msg>> ELSE <<>>)

\* A catch that also empties the records when preprocess rejects.
PreprocessFailClears(f) ==
  /\ pc[f] = "preprocess"
  /\ \E msg \in PreprocessMsgs :
       result' = [result EXCEPT ![f] =
                    [kind |-> "errors", message |-> preprocessMessage(f, msg)]]
  /\ pc' = [pc EXCEPT ![f] = "failed"]
  /\ timestamps' = [timestamps EXCEPT ![f] = <<>>]
  /\ stats' = <<>>
  /\ UNCHANGED <<host, options, clock, run, phase, bundleStart, endVars>>

\* Lines 197-200 and 83-85: preprocess rejects; the error is rethrown with
\* its message rewritten and onLoad's catch returns it as a diagnostic.
PreprocessFail(f) ==
  /\ pc[f] = "preprocess"
  /\ \E msg \in PreprocessMsgs :
       result' = [result EXCEPT ![f] =
                    [kind |-> "errors", message |-> preprocessMessage(f, msg)]]
  /\ pc' = [pc EXCEPT ![f] = "failed"]
  /\ timestamps' = [timestamps EXCEPT ![f] = <<>>]
  /\ UNCHANGED <<host, options, clock, run, phase, stats, bundleStart, endVars>>

\* Lines 206-210 and 83-85: dynamicCompileOptions rejects.
DynamicFail(f) ==
  /\ pc[f] = "dynamic"
  /\ options.dynamic
  /\ result' = [result EXCEPT ![f] =
                  [kind |-> "errors", message |-> <<"dynamicCompileOptions failed">>]]
  /\ pc' = [pc EXCEPT ![f] = "failed"]
  /\ timestamps' = [timestamps EXCEPT ![f] = <<>>]
  /\ UNCHANGED <<host, options, clock, run, phase, stats, bundleStart, endVars>>

\* A compile that is awaited: the load hook suspends between 'compileStart'
\* and 'compiled'.
CompileSuspends(f) ==
  /\ pc[f] = "dynamic"
  /\ \E t \in Readings(clock) :
       /\ timestamps' = [timestamps EXCEPT ![f] =
            takeTimestamp(timestamps[f],
                          IF findIndex(timestamps[f], "compileStart") = -1
                          THEN "compileStart" ELSE "compiled", t)]
       /\ clock' = t
  /\ pc' = [pc EXCEPT ![f] = IF findIndex(timestamps[f], "compileStart") = -1
                             THEN "dynamic" ELSE "compiled"]
  /\ UNCHANGED <<host, options, run, phase, stats, bundleStart, result, endVars>>

\* Lines 206-225: the dynamicCompileOptions await resolves; 'compileStart',
\* the synchronous compile, 'compiled'; compileSvelte's promise resolves.
Compile(f) ==
  /\ pc[f] = "dynamic"
  /\ \E t1 \in Readings(clock) : \E t2 \in Readings(t1) :
       /\ timestamps' = [timestamps EXCEPT ![f] =
            takeTimestamp(takeTimestamp(timestamps[f], "compileStart", t1),
                          "compiled", t2)]
       /\ clock' = t2
  /\ pc' = [pc EXCEPT ![f] = "compiled"]
  /\ UNCHANGED <<host, options, run, phase, stats, bundleStart, result, endVars>>

\* A load hook that pushes the record also when compile throws (the push in
\* a finally block).
CompileFailRecorded(f) ==
  /\ pc[f] = "dynamic"
  /\ \E t \in Readings(clock) :
       /\ stats' = Append(stats,
            [filename |-> f, pkg |-> Undefined,
             timestamps |-> takeTimestamp(timestamps[f], "compileStart", t)])
       /\ timestamps' = [timestamps EXCEPT ![f] = <<>>]
       /\ clock' = t
  /\ result' = [result EXCEPT ![f] =
                  [kind |-> "errors", message |-> <<"compile error">>]]
  /\ pc' = [pc EXCEPT ![f] = "failed"]
  /\ UNCHANGED <<host, options, run, phase, bundleStart, endVars>>

\* Lines 222-223 and 83-85: 'compileStart', then compile throws.
CompileFail(f) ==
  /\ pc[f] = "dynamic"
  /\ \E t \in Readings(clock) :
       /\ timestamps' = [timestamps EXCEPT ![f] = <<>>]
       /\ clock' = t
  /\ result' = [result EXCEPT ![f] =
                  [kind |-> "errors", message |-> <<"compile error">>]]
  /\ pc' = [pc EXCEPT ![f] = "failed"]
  /\ UNCHANGED <<host, options, run, phase, stats, bundleStart, endVars>>

\* Line 225: compiled.js.code + '//# sourceMappingURL=' + compiled.js.map.toUrl()
contentsOf(f) == <<"code", f, "//# sourceMappingURL=", "url", f>>

\* A load hook whose events went to a list shared with the other load hooks:
\* the record it pushes also holds the events of another file.
LoadFinishShared(f) ==
  /\ pc[f] = "compiled"
  /\ \E t \in Readings(clock) : \E g \in Files \ {f} :
       LET ts == takeTimestamp(timestamps[g] \o timestamps[f], "end", t)
       IN /\ timestamps' = [timestamps EXCEPT ![f] = <<>>]
          /\ stats' = Append(stats, [filename |-> f, pkg |-> Undefined, timestamps |-> ts])
          /\ clock' = t
  /\ result' = [result EXCEPT ![f] = [kind |-> "contents", message |-> contentsOf(f)]]
  /\ pc' = [pc EXCEPT ![f] = "done"]
  /\ UNCHANGED <<host, options, run, phase, bundleStart, endVars>>

\* Lines 79-82: the await of compileSvelte resumes; 'end'; stats.push.
LoadFinish(f) ==
  /\ pc[f] = "compiled"
  /\ \E t \in Readings(clock) :
       LET ts == takeTimestamp(timestamps[f], "end", t)
       IN /\ timestamps' = [timestamps EXCEPT ![f] = <<>>]
          /\ stats' = Append(stats, [filename |-> f, pkg |-> Undefined, timestamps |-> ts])
          /\ clock' = t
  /\ result' = [result EXCEPT ![f] = [kind |-> "contents", message |-> contentsOf(f)]]
  /\ pc' = [pc EXCEPT ![f] = "done"]
  /\ UNCHANGED <<host, options, run, phase, bundleStart, endVars>>

\* ------------------------------------------------------------ build.onEnd
\* Lines 88-93: the host signals the run end once no load hook is pending
\* (it has taken what the load hooks settled to); totalDuration is taken and
\* one package lookup per record is started.
OnEnd ==
  /\ phase = "loading"
  /\ \A f \in Files : ~InFlight(f)
  /\ \E t \in Readings(clock) :
       /\ totalDuration' = t - bundleStart
       /\ clock' = t
  /\ lookup' = [i \in 1..Len(stats) |-> "pending"]
  /\ phase' = "ending"
  /\ endPc' = "lookup"
  /\ result' = [f \in Files |-> [kind |-> "none", message |-> <<>>]]
  /\ UNCHANGED <<host, options, run, stats, bundleStart, pc, timestamps,
                 endError, grouped, gi, log>>

\* A resolution that moves the resolved record to the end of the records.
LookupResolveMoves(i) ==
  /\ i \in 1..Len(lookup)
  /\ lookup[i] = "pending"
  /\ \E p \in Pkgs \cup {Undefined} :
       stats' = Append(SubSeq(stats, 1, i - 1) \o SubSeq(stats, i + 1, Len(stats)),
                       [stats[i] EXCEPT !.pkg = p])
  /\ lookup' = [lookup EXCEPT ![i] = "resolved"]
  /\ UNCHANGED <<host, options, clock, run, phase, bundleStart, pc, timestamps, result,
                 endPc, endError, grouped, gi, totalDuration, log>>

\* Line 92: findClosestPkgJsonPath resolves with a path or with undefined;
\* .then((pkg) => (stat.pkg = pkg)).
LookupResolve(i) ==
  /\ i \in 1..Len(lookup)
  /\ lookup[i] = "pending"
  /\ \E p \in Pkgs \cup {Undefined} :
       stats' = [stats EXCEPT ![i].pkg = p]
  /\ lookup' = [lookup EXCEPT ![i] = "resolved"]
  /\ UNCHANGED <<host, options, clock, run, phase, bundleStart, pc, timestamps, result,
                 endPc, endError, grouped, gi, totalDuration, log>>

\* Lines 91-93: a lookup rejects; Promise.all rejects with the first
\* rejection and the onEnd promise rejects with it.
LookupReject(i) ==
  /\ i \in 1..Len(lookup)
  /\ lookup[i] = "pending"
  /\ lookup' = [lookup EXCEPT ![i] = "rejected"]
  /\ IF endPc = "lookup"
     THEN /\ endPc' = "rejected"
          /\ endError' = "lookup rejected"
          /\ phase' = "ended"
     ELSE UNCHANGED <<endPc, endError, phase>>
  /\ UNCHANGED <<host, options, clock, run, stats, bundleStart, pc, timestamps, result,
                 grouped, gi, totalDuration, log>>

\* Lines 95-127: Promise.all has resolved; the records are folded into
\* groups. With no group the loop of line 128 is empty and line 166 runs.
Group ==
  /\ endPc = "lookup"
  /\ \A i \in 1..Len(lookup) : lookup[i] = "resolved"
  /\ LET r == groupStats(stats)
     IN IF r.threw
        THEN /\ endPc' = "rejected"
             /\ endError' = "TypeError: duration"
             /\ phase' = "ended"
             /\ UNCHANGED <<grouped, gi, log>>
        ELSE IF r.groups = <<>>
        THEN /\ endPc' = "done"
             /\ phase' = "ended"
             /\ log' = Append(log, totalLine(totalDuration))
             /\ UNCHANGED <<endError, grouped, gi>>
        ELSE /\ endPc' = "report"
             /\ grouped' = r.groups
             /\ gi' = 1
             /\ UNCHANGED <<endError, phase, log>>
  /\ UNCHANGED <<host, options, clock, run, stats, bundleStart, pc, timestamps, result,
                 lookup, totalDuration>>

\* Lines 129-166: the manifest of the current group is read and parsed, its
\* block is logged; after the last group the total line is logged.
ManifestOk ==
  /\ endPc = "report"
  /\ grouped[gi].pkg # Undefined
  /\ \E hasName \in BOOLEAN :
       LET g == grouped[gi]
           name == IF hasName THEN ManifestName(g.pkg) ELSE g.pkg
           log1 == Append(log, groupBlock(g, name))
       IN IF gi = Len(grouped)
          THEN /\ log' = Append(log1, totalLine(totalDuration))
               /\ endPc' = "done"
               /\ phase' = "ended"
               /\ gi' = gi
          ELSE /\ log' = log1
               /\ gi' = gi + 1
               /\ UNCHANGED <<endPc, phase>>
  /\ UNCHANGED <<host, options, clock, run, stats, bundleStart, pc, timestamps, result,
                 lookup, endError, grouped, totalDuration>>

\* Line 129: fs.readFile rejects (always for the path undefined) or
\* JSON.parse throws; nothing catches it and the onEnd promise rejects.
ManifestFail ==
  /\ endPc = "report"
  /\ endPc' = "rejected"
  /\ endError' = IF grouped[gi].pkg = Undefined
                 THEN "TypeError: path undefined"
                 ELSE "manifest unreadable"
  /\ phase' = "ended"
  /\ UNCHANGED <<host, options, clock, run, stats, bundleStart, pc, timestamps, result,
                 lookup, grouped, gi, totalDuration, log>>

\* ------------------------------------------------------------------ Next
Next ==
  \/ OnStart
  \/ \E f \in Files : OnLoad(f)
  \/ \E f \in Files : ReadOk(f)
  \/ \E f \in Files : ReadFail(f)
  \/ \E f \in Files : PreprocessOk(f)
  \/ \E f \in Files : PreprocessFail(f)
  \/ \E f \in Files : DynamicFail(f)
  \/ \E f \in Files : Compile(f)
  \/ \E f \in Files : CompileFail(f)
  \/ \E f \in Files : LoadFinish(f)
  \/ OnEnd
  \/ \E i \in Files : LookupResolve(i)
  \/ \E i \in Files : LookupReject(i)
  \/ Group
  \/ ManifestOk
  \/ ManifestFail

Spec == Init /\ [][Next]_vars

\* ------------------------------------------------- the aggregation alone
\* The run-end aggregation is also explored from the states in which onEnd's
\* Promise.all has just resolved, for every list of up to NumDrawn records a
\* run with a ticking clock can leave behind, and for the two files of the
\* spec's example.
EventNames(pre) ==
  IF pre
  THEN <<"start", "read", "preprocessedStart", "preprocessed",
         "compileStart", "compiled", "end">>
  ELSE <<"start", "read", "compileStart", "compiled", "end">>

\* The readings of the drawn traces: between two events of a run the clock
\* has ticked or it has not.
DrawnReadings == {0, 1}

\* The traces a load hook can push: the events in order, readings of a
\* monotonic clock.
Traces(pre) ==
  LET names == EventNames(pre)
      n == Len(names)
  IN {[j \in 1..n |-> [event |-> names[j], ts |-> tf[j]]] :
        tf \in {g \in [1..n -> DrawnReadings] : \A j \in 1..(n - 1) : g[j] <= g[j + 1]}}

\* Spec section 8: file A (start=0, read=5, compileStart=5, compiled=20,
\* end=20) and file B (start=2, read=6, compileStart=6, compiled=9, end=9) of
\* one package; B ends first, so its record is pushed first.
ExampleA ==
  <<[event |-> "start", ts |-> 0], [event |-> "read", ts |-> 5],
    [event |-> "compileStart", ts |-> 5], [event |-> "compiled", ts |-> 20],
    [event |-> "end", ts |-> 20]>>
ExampleB ==
  <<[event |-> "start", ts |-> 2], [event |-> "read", ts |-> 6],
    [event |-> "compileStart", ts |-> 6], [event |-> "compiled", ts |-> 9],
    [event |-> "end", ts |-> 9]>>
ExampleStats ==
  <<[filename |-> 2, pkg |-> "/a/package.json", timestamps |-> ExampleB],
    [filename |-> 1, pkg |-> "/a/package.json", timestamps |-> ExampleA]>>

\* The same two files when a preprocessor is configured: A preprocesses from
\* 5 to 7, B from 6 to 6.
ExamplePreprocessedA ==
  <<[event |-> "start", ts |-> 0], [event |-> "read", ts |-> 5],
    [event |-> "preprocessedStart", ts |-> 5], [event |-> "preprocessed", ts |-> 7],
    [event |-> "compileStart", ts |-> 7], [event |-> "compiled", ts |-> 20],
    [event |-> "end", ts |-> 20]>>
ExamplePreprocessedB ==
  <<[event |-> "start", ts |-> 2], [event |-> "read", ts |-> 6],
    [event |-> "preprocessedStart", ts |-> 6], [event |-> "preprocessed", ts |-> 6],
    [event |-> "compileStart", ts |-> 6], [event |-> "compiled", ts |-> 9],
    [event |-> "end", ts |-> 9]>>
ExamplePreprocessedStats ==
  <<[filename |-> 2, pkg |-> "/a/package.json", timestamps |-> ExamplePreprocessedB],
    [filename |-> 1, pkg |-> "/a/package.json", timestamps |-> ExamplePreprocessedA]>>

TracesPreprocessed == Traces(TRUE)
TracesPlain == Traces(FALSE)

\* A list of m records with resolved packages; records are pushed at their
\* 'end' reading, so the 'end' readings do not decrease along the list.  The
\* two packages are interchangeable to the grouping pass, so the first record
\* is of the first package.
DrawnStats(m, pk, tr) ==
  [i \in 1..m |-> [filename |-> i, pkg |-> pk[i], timestamps |-> tr[i]]]

InitAggregate ==
  /\ options \in [preprocess : BOOLEAN, dynamic : {FALSE}]
  /\ \E m \in 1..NumDrawn :
       /\ host = [files |-> m, limit |-> MaxInFlight, ticking |-> TRUE]
       /\ \/ \E pk \in {q \in [1..m -> Pkgs] : q[1] = "/a/package.json"} :
               \E tr \in [1..m -> IF options.preprocess THEN TracesPreprocessed
                                                        ELSE TracesPlain] :
                 /\ \A i \in 1..(m - 1) :
                      tr[i][Len(tr[i])].ts <= tr[i + 1][Len(tr[i + 1])].ts
                 /\ stats = DrawnStats(m, pk, tr)
          \/ /\ m = 2
             /\ stats = IF options.preprocess THEN ExamplePreprocessedStats ELSE ExampleStats
  /\ clock = stats[Len(stats)].timestamps[Len(stats[Len(stats)].timestamps)].ts
  /\ run = 1
  /\ phase = "ending"
  /\ bundleStart = 0
  /\ pc = [f \in Files |-> IF f <= Len(stats) THEN "done" ELSE "idle"]
  /\ timestamps = [f \in Files |-> <<>>]
  /\ result = [f \in Files |-> [kind |-> "none", message |-> <<>>]]
  /\ lookup = [i \in 1..Len(stats) |-> "resolved"]
  /\ endPc = "lookup"
  /\ endError = "none"
  /\ grouped = <<>>
  /\ gi = 0
  /\ totalDuration = clock - bundleStart
  /\ log = <<>>

\* Only the grouping pass of onEnd (lines 96-127) is applied to the drawn lists.
NextAggregate == Group

SpecAggregate == InitAggregate /\ [][NextAggregate]_vars

\* ================================================================ claims
Events(ts) == [j \in 1..Len(ts) |-> ts[j].event]
NonDecreasing(ts) == \A j \in 1..(Len(ts) - 1) : ts[j].ts <= ts[j + 1].ts
HasRecord(f) == \E i \in 1..Len(stats) : stats[i].filename = f
Settled(f) == pc[f] \in {"done", "failed", "rejected"}
Failed(f) == pc[f] \in {"failed", "rejected"}
GroupEntries == {j \in 1..Len(log) : log[j].kind = "group"}

\* C1: the trace of every file whose load hook completed successfully is
\* exactly start, read, [preprocessedStart, preprocessed,] compileStart,
\* compiled, end, with non-decreasing timestamps; the preprocess pair is there
\* if and only if a preprocessor is configured.
C1_EventOrder ==
  /\ \A f \in Files : result[f].kind = "contents" => HasRecord(f)
  /\ \A i \in 1..Len(stats) :
       /\ Events(stats[i].timestamps) =
            IF options.preprocess
            THEN <<"start", "read", "preprocessedStart", "preprocessed",
                   "compileStart", "compiled", "end">>
            ELSE <<"start", "read", "compileStart", "compiled", "end">>
       /\ NonDecreasing(stats[i].timestamps)

C1_Witness ==
  /\ options.preprocess
  /\ \E i \in 1..Len(stats) :
       /\ Len(stats[i].timestamps) = 7
       /\ stats[i].timestamps[7].ts > stats[i].timestamps[1].ts

\* C2: a failure at any stage of a file's pipeline is returned from the load
\* hook as an {errors: [...]} result; the load hook never rejects.
C2_FailureIsDiagnostic ==
  \A f \in Files :
    (phase = "loading" /\ Failed(f)) => result[f].kind = "errors"

\* C3: a file whose pipeline failed has no record in the run's records, and
\* every record holds a trace that begins with start and finishes with end.
C3_NoRecordOnFailure ==
  /\ \A f \in Files : Failed(f) => ~HasRecord(f)
  /\ \A i \in 1..Len(stats) :
       LET ts == stats[i].timestamps
       IN Len(ts) >= 2 /\ ts[1].event = "start" /\ ts[Len(ts)].event = "end"

C3_Witness ==
  /\ \E f \in Files : pc[f] = "failed"
  /\ \E f \in Files : pc[f] = "rejected"
  /\ \E f \in Files : pc[f] = "done" /\ HasRecord(f)

\* C4: for a record without preprocessed* events the duration lookups for
\* read, preprocessed and compiled each resolve to a defined duration, and the
\* aggregation does not fail on them.
C4_FallbackResolves ==
  /\ \A i \in 1..Len(stats) :
       LET ts == stats[i].timestamps
       IN (findIndex(ts, "preprocessedStart") = -1 /\ findIndex(ts, "preprocessed") = -1)
          => /\ ~duration(ts, "read", Undefined).threw
             /\ ~duration(ts, "preprocessed", Undefined).threw
             /\ ~duration(ts, "compiled", Undefined).threw
  /\ endError # "TypeError: duration"

\* C5: the failure of one file changes nothing of any other file's pipeline,
\* of the records or of the run's phase; every other pending file can still
\* take its next step and, once no file is pending, the run-end step can run.
C5_CanProceed ==
  (\E f \in Files : Failed(f)) =>
    /\ \A g \in Files :
         /\ pc[g] = "read" => ENABLED ReadOk(g)
         /\ pc[g] = "preprocess" => ENABLED PreprocessOk(g)
         /\ pc[g] = "dynamic" => ENABLED Compile(g)
         /\ pc[g] = "compiled" => ENABLED LoadFinish(g)
    /\ (phase = "loading" /\ \A g \in Files : ~InFlight(g)) => ENABLED OnEnd

C5_FailureIsLocal ==
  \A f \in Files :
    (InFlight(f) /\ pc'[f] \in {"failed", "rejected"}) =>
      /\ stats' = stats
      /\ phase' = phase
      /\ \A g \in Files \ {f} :
           pc'[g] = pc[g] /\ timestamps'[g] = timestamps[g] /\ result'[g] = result[g]

C5_FailureIsolated == []C5_CanProceed /\ [][C5_FailureIsLocal]_vars

C5_Witness ==
  /\ phase = "ended"
  /\ endPc = "done"
  /\ \E f \in Files : Failed(f)
  /\ \E g \in Files : pc[g] = "done" /\ HasRecord(g)
  /\ Len(stats) = 2

\* C6: the records hold only files whose load hook completed since the last
\* run-start signal, each once, none started before that signal's timestamp.
C6_RecordsOfThisRun ==
  /\ \A i \in 1..Len(stats) :
       /\ pc[stats[i].filename] = "done"
       /\ eventTS(stats[i].timestamps, "start").val >= bundleStart
       /\ \A j \in 1..Len(stats) : stats[j].filename = stats[i].filename => j = i
  /\ phase = "idle" => stats = <<>>

C6_Witness ==
  /\ run = 2
  /\ phase = "ended"
  /\ Len(stats) >= 1
  /\ \E f \in Files : Failed(f)

\* C7: when a package lookup rejects or resolves to no package, the run-end
\* step does not fail and the file is reported in a group named "unknown".
C7_UnknownGroup ==
  LET noPackage == \E i \in 1..Len(lookup) :
                     \/ lookup[i] = "rejected"
                     \/ lookup[i] = "resolved" /\ stats[i].pkg = Undefined
  IN (/\ noPackage
      /\ endPc \in {"done", "rejected"}
      /\ endError \notin {"TypeError: duration", "manifest unreadable"})
     => /\ endPc = "done"
        /\ \E j \in GroupEntries : log[j].name = "unknown"

\* C8: when reading or parsing a group's manifest fails, the group is reported
\* under its package path and the run-end step does not fail.
C8_ManifestFallback ==
  endError = "manifest unreadable" =>
    /\ endPc # "rejected"
    /\ \E j \in GroupEntries : log[j].name = grouped[gi].pkg

\* C9: a run with exactly one processed file logs the hint and no group
\* block; a run with more than one processed file logs no hint.
C9_SingleFileHint ==
  endPc = "done" =>
    /\ Len(stats) = 1 =>
         /\ GroupEntries = {}
         /\ \E j \in 1..Len(log) : log[j].kind = "hint"
    /\ Len(stats) > 1 => \A j \in 1..Len(log) : log[j].kind # "hint"

\* First index in the records of a file of package pkg.
FirstRecordOf(pkg) ==
  CHOOSE i \in 1..Len(stats) :
    /\ stats[i].pkg = pkg
    /\ \A j \in 1..(i - 1) : stats[j].pkg # pkg

\* C10: the group blocks are logged by descending file count, groups of equal
\* count in the order their first file appears in the records.
C10_SortedByCount ==
  endPc \in {"report", "done"} =>
    \A i \in GroupEntries : \A j \in GroupEntries :
      i < j =>
        /\ log[i].Files >= log[j].Files
        /\ log[i].Files = log[j].Files =>
             FirstRecordOf(grouped[i].pkg) < FirstRecordOf(grouped[j].pkg)


\* ------------------------------------------------ claims on the aggregation
PkgKeys == {stats[i].pkg : i \in 1..Len(stats)}
RecordsOf(k) == {i \in 1..Len(stats) : stats[i].pkg = k}
Has(ts, e) == \E j \in 1..Len(ts) : ts[j].event = e
TsOf(ts, e) == ts[CHOOSE j \in 1..Len(ts) : ts[j].event = e].ts
MinOf(S) == CHOOSE x \in S : \A y \in S : x <= y
MaxOf(S) == CHOOSE x \in S : \A y \in S : x >= y
Aggregated == endPc # "lookup"

RECURSIVE SumOf(_, _)
SumOf(S, v) ==
  IF S = {} THEN 0
  ELSE LET x == CHOOSE y \in S : TRUE
       IN v[x] + SumOf(S \ {x}, v)

StageOf(i, from, to) ==
  IF Has(stats[i].timestamps, from) /\ Has(stats[i].timestamps, to)
  THEN TsOf(stats[i].timestamps, to) - TsOf(stats[i].timestamps, from)
  ELSE 0

\* C11: once the grouping pass of a run-end has run, every package key among
\* the records has a group whose file count is the number of records of that
\* key and whose span runs from the least 'start' to the greatest 'end' of
\* those records.
C11_CountAndSpan ==
  Aggregated =>
    \A k \in PkgKeys :
      \E g \in 1..Len(grouped) :
        /\ grouped[g].pkg = k
        /\ grouped[g].count = Cardinality(RecordsOf(k))
        /\ grouped[g].start
             = MinOf({TsOf(stats[i].timestamps, "start") : i \in RecordsOf(k)})
        /\ grouped[g].end
             = MaxOf({TsOf(stats[i].timestamps, "end") : i \in RecordsOf(k)})

\* C12: once the grouping pass has run, every package key has a group whose
\* read total is the sum of (read - start), whose compile total is the sum of
\* (compiled - compileStart) and whose preprocess total is the sum of
\* (preprocessed - preprocessedStart) over its records, with each average the
\* total over the count, whether or not the records hold preprocess events;
\* for the records of the spec's example the group has count 2, compile total
\* 18, compile average 9 and span [0, 20].
C12_StageTotals ==
  Aggregated =>
    /\ \A k \in PkgKeys :
         \E g \in 1..Len(grouped) :
           LET b == groupBlock(grouped[g], k)
               n == Cardinality(RecordsOf(k))
               reads == SumOf(RecordsOf(k), [i \in RecordsOf(k) |-> StageOf(i, "start", "read")])
               pres == SumOf(RecordsOf(k),
                             [i \in RecordsOf(k) |->
                                StageOf(i, "preprocessedStart", "preprocessed")])
               comps == SumOf(RecordsOf(k),
                              [i \in RecordsOf(k) |-> StageOf(i, "compileStart", "compiled")])
           IN /\ grouped[g].pkg = k
              /\ b.ReadTime = reads /\ b.ReadTimeAvg = [num |-> reads, den |-> n]
              /\ b.PreprocessTime = pres /\ b.PreprocessTimeAvg = [num |-> pres, den |-> n]
              /\ b.CompileTime = comps /\ b.CompileTimeAvg = [num |-> comps, den |-> n]
    /\ stats = ExampleStats =>
         \E g \in 1..Len(grouped) :
           LET b == groupBlock(grouped[g], "example")
           IN /\ b.Files = 2
              /\ b.CompileTime = 18
              /\ b.CompileTimeAvg.num = 9 * b.CompileTimeAvg.den
              /\ grouped[g].start = 0
              /\ grouped[g].end = 20

\* C13: whenever a run-end has finished, the log holds exactly one 'total
\* duration' line for the run, it is the last entry, after every group block,
\* and it carries the reading taken at run-end minus the run's start reading.
C13_OneTotalLine ==
  phase = "ended" =>
    /\ Cardinality({j \in 1..Len(log) : log[j].kind = "total"}) = 1
    /\ log[Len(log)] = totalLine(totalDuration)
    /\ \A j \in GroupEntries : j < Len(log)

\* The step in which file f's preprocess rejection is surfaced.
PreprocessRejected(f) == pc[f] = "preprocess" /\ pc'[f] = "failed"

StopsBeforeCompile(f) ==
  /\ ~Has(timestamps[f], "compileStart")
  /\ ~Has(timestamps'[f], "compileStart")
  /\ stats' = stats

\* The original statement of C14: whenever the preprocessor rejects for a
\* file, the diagnostic of that file is 'Error while preprocessing ', the file
\* path, ' - ' and the original message, whatever that message is, and the
\* pipeline stops without a compileStart event.
C14_MessageTemplate ==
  [][\A f \in Files :
       PreprocessRejected(f) =>
         /\ result'[f].kind = "errors"
         /\ \E msg \in PreprocessMsgs :
              result'[f].message = <<"Error while preprocessing ", f, " - ", msg>>
         /\ StopsBeforeCompile(f)]_vars

\* C14 (amended): whenever the preprocessor rejects for a file, the diagnostic
\* of that file is 'Error while preprocessing ' and the file path, followed by
\* ' - ' and the original message when that message is not empty and by
\* nothing when it is empty; the pipeline stops without a compileStart event
\* and without a record, and the file takes no further step in the run.
C14_MessageEnriched ==
  [][\A f \in Files :
       /\ PreprocessRejected(f) =>
            /\ result'[f].kind = "errors"
            /\ \E msg \in PreprocessMsgs :
                 result'[f].message
                   = IF msg = ""
                     THEN <<"Error while preprocessing ", f>>
                     ELSE <<"Error while preprocessing ", f, " - ", msg>>
            /\ StopsBeforeCompile(f)
       /\ pc[f] = "failed" => pc'[f] \in {"failed", "idle"}]_vars

C14_Witness ==
  /\ \E f \in Files :
       /\ pc[f] = "failed"
       /\ result[f].message = <<"Error while preprocessing ", f, " - ", "bad syntax">>
  /\ \E f \in Files :
       /\ pc[f] = "failed"
       /\ result[f].message = <<"Error while preprocessing ", f>>

\* C15: the contents a load hook returns on success are the compiled code of
\* the file, a newline, '//# sourceMappingURL=' and the URL of the file's
\* source map, and nothing else.
C15_ContentsShape ==
  \A f \in Files :
    result[f].kind = "contents" =>
      result[f].message = <<"code", f, "\n", "//# sourceMappingURL=", "url", f>>

\* C16, the records: a file has exactly one record if its load hook succeeded
\* in this run and none otherwise, and no record holds an event twice.
C16_OneRecordEach ==
  /\ \A f \in Files :
       Cardinality({i \in 1..Len(stats) : stats[i].filename = f})
         = IF pc[f] = "done" THEN 1 ELSE 0
  /\ \A i \in 1..Len(stats) :
       Cardinality({stats[i].timestamps[j].event : j \in 1..Len(stats[i].timestamps)})
         = Len(stats[i].timestamps)

\* C16, the steps: a step of one load hook leaves the event list of every
\* other load hook as it is; while files are loading the records already
\* pushed stay as they are and at most one is added per step; the record a
\* finishing load hook pushes holds that hook's own events, then 'end'.
C16_OwnEventsOnly ==
  /\ \A f \in Files :
       (pc'[f] = pc[f] /\ run' = run) => timestamps'[f] = timestamps[f]
  /\ (phase = "loading" /\ phase' = "loading") =>
       /\ Len(stats') \in {Len(stats), Len(stats) + 1}
       /\ \A i \in 1..Len(stats) : stats'[i] = stats[i]
  /\ \A f \in Files :
       (pc[f] = "compiled" /\ pc'[f] = "done") =>
         /\ Len(stats') = Len(stats) + 1
         /\ stats'[Len(stats')].filename = f
         /\ Events(stats'[Len(stats')].timestamps) = Append(Events(timestamps[f]), "end")
         /\ \A j \in 1..Len(timestamps[f]) :
              stats'[Len(stats')].timestamps[j] = timestamps[f][j]

\* C16: with several load hooks in flight, in every interleaving, every file
\* that succeeded has exactly one record, no record is lost or duplicated, and
\* a record holds only the events its own load hook recorded.
C16_RecordsIntact == []C16_OneRecordEach /\ [][C16_OwnEventsOnly]_vars

C16_Witness ==
  /\ Len(stats) = 2
  /\ stats[1].filename > stats[2].filename
  /\ \E f \in Files : InFlight(f) /\ Len(timestamps[f]) >= 2

\* C17, the states: no load hook is ever found suspended with 'compileStart'
\* as its last event.
C17_NeverInsideCompile ==
  \A f \in Files :
    timestamps[f] # <<>> => timestamps[f][Len(timestamps[f])].event # "compileStart"

\* C17, the steps: the step that records a file's 'compileStart' records its
\* 'compiled' right after it, and in that step no other load hook moves or
\* records an event, no record is pushed and neither onStart nor onEnd runs.
C17_CompileInOneStep ==
  \A f \in Files :
    (~Has(timestamps[f], "compileStart") /\ Has(timestamps'[f], "compileStart")) =>
      /\ Events(timestamps'[f]) = Events(timestamps[f]) \o <<"compileStart", "compiled">>
      /\ \A g \in Files \ {f} : pc'[g] = pc[g] /\ timestamps'[g] = timestamps[g]
      /\ UNCHANGED <<run, phase, stats, bundleStart, endVars>>

\* C17: the compile step never suspends: between a file's 'compileStart' and
\* its 'compiled' no other load hook takes a step or records an event and
\* neither the run-start nor the run-end handler runs.
C17_CompileNeverSuspends == []C17_NeverInsideCompile /\ [][C17_CompileInOneStep]_vars

C17_Witness ==
  \E f, g \in Files :
    /\ f # g
    /\ pc[f] = "compiled"
    /\ Has(timestamps[f], "compileStart")
    /\ pc[g] \in {"read", "preprocess", "dynamic"}

\* C18: for the trace of every record, duration(trace, to) without a from
\* marker is defined and not negative for to = read, preprocessed and
\* compiled, and it is the reading of the event 'to' minus the reading of the
\* event right before it in the trace.
C18_DurationDefined ==
  \A i \in 1..Len(stats) :
    \A to \in {"read", "preprocessed", "compiled"} :
      LET ts == stats[i].timestamps
          d == duration(ts, to, Undefined)
      IN /\ ~d.threw
         /\ d.val >= 0
         /\ \E j \in 2..Len(ts) :
              ts[j].event = to /\ d.val = ts[j].ts - ts[j - 1].ts

Perms(n) == {p \in [1..n -> 1..n] : \A a, b \in 1..n : p[a] = p[b] => a = b}
Reordered(p) == [i \in 1..Len(stats) |-> stats[p[i]]]
GroupSet(gs) == {gs[g] : g \in 1..Len(gs)}

C20_UnsetWhileLoading ==
  phase = "loading" => \A i \in 1..Len(stats) : stats[i].pkg = Undefined

\* C20, the steps: within a run no step removes or reorders records or
\* changes the path or the event list of a record; records are added only
\* while files are loading, without a package key; the package key of a
\* record is written only after the run-end, by the record's own lookup.
C20_RecordsOnlyRead ==
  run' = run =>
    /\ Len(stats') >= Len(stats)
    /\ phase # "loading" => Len(stats') = Len(stats)
    /\ Len(stats') > Len(stats) => stats'[Len(stats')].pkg = Undefined
    /\ \A i \in 1..Len(stats) :
         /\ stats'[i].filename = stats[i].filename
         /\ stats'[i].timestamps = stats[i].timestamps
         /\ stats'[i].pkg # stats[i].pkg =>
              /\ phase # "loading"
              /\ stats[i].pkg = Undefined
              /\ lookup[i] = "pending"
              /\ lookup'[i] = "resolved"

\* C20: the run-end aggregation only reads the records: it never adds,
\* removes or reorders them and never changes a path or an event list; the
\* one field written after a record was pushed is its package key, unset
\* until the lookups of the run-end resolve.
C20_AggregationReadsOnly == []C20_UnsetWhileLoading /\ [][C20_RecordsOnlyRead]_vars

C20_Witness ==
  /\ phase = "ending"
  /\ Len(stats) >= 2
  /\ \E i, j \in 1..Len(stats) :
       /\ i < j
       /\ stats[i].pkg = Undefined /\ lookup[i] = "pending"
       /\ stats[j].pkg \in Pkgs /\ lookup[j] = "resolved"

====
